---- MODULE Spec2Model ----
(***************************************************************************)
(* Connection lifecycle of the S3 helper dashboard: the AwsConnection      *)
(* table, GET /api/aws/bootstrap and POST /api/aws/verify, each request a  *)
(* sequence of awaited store and provider calls that may interleave with   *)
(* the calls of other requests.                                            *)
(***************************************************************************)
EXTENDS Integers, Sequences, FiniteSets, TLC

\* ------------------------------------------------------------------ bounds
\* Number of AwsConnection rows ever created (ids are never reused).
MaxRows == 2

\* ------------------------------------------------------------ value domain
Procs == {"p1", "p2"}            \* request slots that may be in flight together
Users == {"u1", "u2"}            \* session.user.id values
NoUser == ""                     \* no session

\* Strings the handlers inspect are sequences of characters.
Null == <<"null">>               \* SQL NULL / JS null in a string column
Undefined == <<"undefined">>     \* field absent from the JSON body
ArnPrefix == <<"a","r","n",":","a","w","s",":","i","a","m",":",":">>
RoleMarker == <<":","r","o","l","e","/">>
RoleA == ArnPrefix \o <<"1">> \o RoleMarker \o <<"A">>
RoleB == ArnPrefix \o <<"1">> \o RoleMarker \o <<"B">>
UserArn == ArnPrefix \o <<"1",":","u","s","e","r","/","A">>
NoPrefixArn == <<"x">> \o RoleMarker \o <<"A">>
PrefixOnly == ArnPrefix
EmptyString == <<>>

ValidRoleArns == {RoleA, RoleB}
MalformedRoleArns == {Undefined, EmptyString, UserArn, NoPrefixArn, PrefixOnly}
\* strings that have the prefix and the marker but not the shape of a role ARN:
\* no account, no role name, the marker after another resource
EmptyAccountArn == ArnPrefix \o RoleMarker \o <<"A">>
EmptyNameArn == ArnPrefix \o <<"1">> \o RoleMarker
NestedArn == ArnPrefix \o <<"1",":","u","s","e","r","/","x">> \o RoleMarker \o <<"A">>
LooseRoleArns == {EmptyAccountArn, EmptyNameArn, NestedArn}
RoleArnInputs == ValidRoleArns \cup MalformedRoleArns \cup LooseRoleArns

PendingName == "Pending AWS connection"
NameInputs == {"", "n1"}              \* "" is the falsy / absent name
BodyExternalIds == {0, 99}            \* 0: no externalId field in the body
ConnectionIdInputs == 0 .. MaxRows    \* 0: no connectionId in the request

NoRow == [id |-> 0, userId |-> NoUser, externalId |-> 0, roleArn |-> Null,
          name |-> "", createdAt |-> 0]
NoCall == [RoleArn |-> Null, ExternalId |-> 0]
NoResponse == [status |-> 0, id |-> 0, roleArn |-> Null, name |-> "",
               externalId |-> 0, error |-> "", details |-> "", expiresIn |-> 0]
\* expiresIn absent from the request body (undefined)
NoExpiresIn == -1
NoBody == [roleArn |-> Undefined, name |-> "", connectionId |-> 0, externalId |-> 0,
           bucket |-> "", key |-> "", expiresIn |-> NoExpiresIn]
NoAttempt == [id |-> 0, ExternalId |-> 0]
NoSeen == [boot |-> NoResponse, failed |-> NoAttempt, rows |-> {}]

VARIABLES
    rows,        \* the AwsConnection table: a set of row records
    nextId,      \* number of rows created so far + 1 (id / createdAt / token source)
    req,         \* per slot: the request in flight (or the last one) and its locals
    lastBoot,    \* per user: last bootstrap answer since the user's last successful verify
    failed,      \* per user: target id and ExternalId of the last verify that failed
                 \* at AssumeRole on a pending row
    history      \* whether lastBoot and failed are recorded in this run

vars == <<rows, nextId, req, lastBoot, failed, history>>

\* ------------------------------------------------------------ string helpers
\* String.prototype.startsWith
StartsWith(s, prefix) ==
    /\ Len(s) >= Len(prefix)
    /\ SubSeq(s, 1, Len(prefix)) = prefix

\* String.prototype.includes
Includes(s, sub) ==
    \E i \in 1 .. (Len(s) - Len(sub) + 1) : SubSeq(s, i, i + Len(sub) - 1) = sub

\* JS truthiness of an optional string: undefined, null and "" are falsy
Falsy(s) == s = Undefined \/ s = Null \/ s = EmptyString

\* a format check that forgets the prefix
RoleArnFormatOkMarkerOnly(roleArn) == Includes(roleArn, <<":","r","o","l","e","/">>)

\* verify/route.ts: the two validation branches
RoleArnMissing(roleArn) == Falsy(roleArn)

RoleArnFormatOk(roleArn) ==
    StartsWith(roleArn, ArnPrefix) /\ Includes(roleArn, RoleMarker)

\* ------------------------------------------------------------------ store
\* crypto.randomBytes(32): a token no earlier call returned
generateExternalId(n) == n + 10

\* a lookup by id that forgets the user
FindById(id, u) == {r \in rows : r.id = id}

\* findFirst({ where: { id, userId } })
FindByIdAndUser(id, u) == {r \in rows : r.id = id /\ r.userId = u}

\* a pending lookup with the null test inverted
PendingOfVerified(u) == {r \in rows : r.userId = u /\ r.roleArn # <<"null">>}

\* findFirst({ where: { userId, roleArn: null }, orderBy: { createdAt: "desc" } })
PendingOf(u) == {r \in rows : r.userId = u /\ r.roleArn = Null}

\* findFirst({ where: { userId, roleArn } })
FindByUserAndRole(u, roleArn) == {r \in rows : r.userId = u /\ r.roleArn = roleArn}

\* orderBy createdAt desc, first row
Latest(S) == CHOOSE r \in S : \A s \in S : s.createdAt <= r.createdAt

\* CREATE UNIQUE INDEX "AwsConnection_userId_externalId_key"
UniqueExternalIdOk(table) ==
    \A r, s \in table :
        (r.userId = s.userId /\ r.externalId = s.externalId) => r.id = s.id

\* a table without the (userId, roleArn) index
NoRoleArnIndex(table) == TRUE

\* CREATE UNIQUE INDEX "AwsConnection_userId_roleArn_key" (NULLs are distinct)
UniqueRoleArnOk(table) ==
    \A r, s \in table :
        (r.userId = s.userId /\ r.roleArn = s.roleArn /\ r.roleArn # Null)
            => r.id = s.id

ConstraintsOk(table) == UniqueExternalIdOk(table) /\ UniqueRoleArnOk(table)

\* create({ data: { userId, externalId: generateExternalId(), roleArn: null, name } })
PendingRow(u) ==
    [id |-> nextId, userId |-> u, externalId |-> generateExternalId(nextId),
     roleArn |-> Null, name |-> PendingName, createdAt |-> nextId]

\* ---------------------------------------------------------------- requests
InFlight(p) == req[p].pc \notin {"idle", "done"}

IdleRequest ==
    [kind |-> "none", pc |-> "idle", user |-> NoUser, body |-> NoBody,
     connection |-> NoRow, existingByRole |-> NoRow,
     credentials |-> NoCall, stsCall |-> NoCall, stsCalls |-> 0, s3Calls |-> 0,
     usedCredentials |-> NoCall, granted |-> {},
     signedFor |-> 0, reads |-> 0, created |-> {}, modified |-> {}, deleted |-> {},
     target |-> NoRow, thrown |-> "", seen |-> NoSeen,
     response |-> NoResponse]

\* a request entering its handler; seen is what the run had recorded by then
FreshRequest(kind, u, body) ==
    [IdleRequest EXCEPT !.kind = kind, !.pc = "begin", !.user = u, !.body = body,
                        !.seen = IF ~history THEN NoSeen
                                 ELSE IF u \in Users
                                   THEN [boot |-> lastBoot[u], failed |-> failed[u],
                                         rows |-> rows]
                                 ELSE [NoSeen EXCEPT !.rows = rows]]

\* the handler returns: its locals are gone, its answer and its record stay
Respond(r, resp) ==
    [r EXCEPT !.pc = "done", !.response = resp, !.connection = NoRow,
              !.existingByRole = NoRow, !.credentials = NoCall]

\* catch (error) of a handler: 500 with the error's message as details
InternalError(r, error, thrown) ==
    Respond([r EXCEPT !.thrown = thrown],
            [NoResponse EXCEPT !.status = 500, !.error = error, !.details = thrown])

ErrorResponse(status, error, details) ==
    [NoResponse EXCEPT !.status = status, !.error = error, !.details = details]

InitStore ==
    /\ rows = {}
    /\ nextId = 1
    /\ req = [p \in Procs |-> IdleRequest]
    /\ lastBoot = [u \in Users |-> NoResponse]
    /\ failed = [u \in Users |-> NoAttempt]

Init == InitStore /\ history = FALSE

InitSeq == InitStore /\ history = TRUE

\* the observations of a run of non-overlapping requests
RecordBoot(u, resp) ==
    lastBoot' = IF history THEN [lastBoot EXCEPT ![u] = resp] ELSE lastBoot

RecordFailed(u, attempt) ==
    failed' = IF history THEN [failed EXCEPT ![u] = attempt] ELSE failed

Set(p, r) == req' = [req EXCEPT ![p] = r]

\* ------------------------------------------------ GET /api/aws/bootstrap
BootstrapResponse(connection) ==
    [NoResponse EXCEPT !.status = 200, !.id = connection.id,
                       !.externalId = connection.externalId]

\* session check of the handler
BootstrapBegin(p, u) ==
    /\ req[p].pc = "idle"
    /\ LET r == FreshRequest("bootstrap", u, NoBody) IN
         IF u = NoUser
           THEN Set(p, Respond(r, ErrorResponse(401, "Unauthorized", "")))
           ELSE Set(p, [r EXCEPT !.pc = "findPending"])
    /\ UNCHANGED <<rows, nextId, lastBoot, failed, history>>

\* findFirst of the latest pending row; answers when one exists
BootstrapFindPending(p) ==
    LET r == req[p]
        found == PendingOf(r.user) IN
    /\ r.kind = "bootstrap" /\ r.pc = "findPending"
    /\ IF found # {}
         THEN LET connection == Latest(found)
                  resp == BootstrapResponse(connection) IN
              /\ Set(p, Respond([r EXCEPT !.reads = @ + 1, !.connection = connection], resp))
              /\ RecordBoot(r.user, resp)
         ELSE /\ Set(p, [r EXCEPT !.reads = @ + 1, !.pc = "create"])
              /\ UNCHANGED lastBoot
    /\ UNCHANGED <<rows, nextId, failed, history>>

\* create of a pending row, then the answer
BootstrapCreate(p) ==
    LET r == req[p]
        connection == PendingRow(r.user)
        resp == BootstrapResponse(connection) IN
    /\ r.kind = "bootstrap" /\ r.pc = "create"
    /\ nextId <= MaxRows
    /\ IF ConstraintsOk(rows \cup {connection})
         THEN /\ rows' = rows \cup {connection}
              /\ nextId' = nextId + 1
              /\ Set(p, Respond([r EXCEPT !.connection = connection,
                                          !.created = @ \cup {connection.id}], resp))
              /\ RecordBoot(r.user, resp)
         ELSE /\ Set(p, InternalError(r, "Failed to bootstrap AWS connection", "P2002"))
              /\ UNCHANGED <<rows, nextId, lastBoot>>
    /\ UNCHANGED <<failed, history>>

\* --------------------------------------------------- POST /api/aws/verify
VerifyBody(roleArn, name, connectionId, externalId) ==
    [NoBody EXCEPT !.roleArn = roleArn, !.name = name, !.connectionId = connectionId,
                   !.externalId = externalId]

VerifyBodies ==
    {VerifyBody(a, n, c, e) : a \in ValidRoleArns, n \in NameInputs,
                              c \in ConnectionIdInputs, e \in BodyExternalIds}

\* the earlier handler's call: the External ID of the request body when it has one
AssumeRoleInputFromBody(body, connection) ==
    [RoleArn |-> body.roleArn,
     ExternalId |-> IF body.externalId # 0 THEN body.externalId ELSE connection.externalId]

\* assumeRole(roleArn, connection.externalId): the AssumeRoleCommand input
AssumeRoleInput(body, connection) ==
    [RoleArn |-> body.roleArn, ExternalId |-> connection.externalId]

\* a promote that also keeps the session token of the call on the row
PromoteDataStoringToken(row, body, connection) ==
    [f \in DOMAIN row \cup {"sessionToken"} |->
        IF f = "sessionToken" THEN AssumeRoleInput(body, connection)
        ELSE IF f = "roleArn" THEN body.roleArn
        ELSE IF f = "name" THEN (IF body.name # "" THEN body.name ELSE connection.name)
        ELSE row[f]]

\* a promote that also issues a new External ID
PromoteDataNewExternalId(row, body, connection) ==
    [row EXCEPT !.roleArn = body.roleArn,
                !.name = IF body.name # "" THEN body.name ELSE connection.name,
                !.externalId = generateExternalId(nextId)]

\* update({ where: { id }, data: { roleArn, name: name || connection.name } })
PromoteData(row, body, connection) ==
    [row EXCEPT !.roleArn = body.roleArn,
                !.name = IF body.name # "" THEN body.name ELSE connection.name]

\* a success body that returns the whole row
VerifyResponseWithExternalId(connection) ==
    [NoResponse EXCEPT !.status = 200, !.id = connection.id,
                       !.roleArn = connection.roleArn, !.name = connection.name,
                       !.externalId = connection.externalId]

\* the success body: id, roleArn ?? "", name (createdAt is the row's)
VerifyResponse(connection) ==
    [NoResponse EXCEPT !.status = 200, !.id = connection.id,
                       !.roleArn = IF connection.roleArn = Null
                                     THEN EmptyString ELSE connection.roleArn,
                       !.name = connection.name]

\* session check, body parsing and the two validation branches
VerifyBegin(p, u, body) ==
    /\ req[p].pc = "idle"
    /\ LET r == FreshRequest("verify", u, body) IN
         IF u = NoUser
           THEN Set(p, Respond(r, ErrorResponse(401, "Unauthorized", "")))
         ELSE IF RoleArnMissing(body.roleArn)
           THEN Set(p, Respond(r, ErrorResponse(400, "roleArn is required", "")))
         ELSE IF ~RoleArnFormatOk(body.roleArn)
           THEN Set(p, Respond(r, ErrorResponse(400, "Invalid roleArn format", "")))
         ELSE Set(p, [r EXCEPT !.pc = IF body.connectionId # 0
                                        THEN "findById" ELSE "findPending"])
    /\ UNCHANGED <<rows, nextId, lastBoot, failed, history>>

\* if (connectionId) findFirst({ id: connectionId, userId })
VerifyFindById(p) ==
    LET r == req[p]
        found == FindByIdAndUser(r.body.connectionId, r.user) IN
    /\ r.kind = "verify" /\ r.pc = "findById"
    /\ IF found # {}
         THEN LET connection == CHOOSE c \in found : TRUE IN
              Set(p, [r EXCEPT !.reads = @ + 1, !.pc = "assumeRole",
                               !.connection = connection, !.target = connection])
         ELSE Set(p, [r EXCEPT !.reads = @ + 1, !.pc = "findPending"])
    /\ UNCHANGED <<rows, nextId, lastBoot, failed, history>>

\* a verify that goes on to create a row without looking for a pending one
VerifyFindPendingCreating(p) ==
    LET r == req[p] IN
    /\ r.kind = "verify" /\ r.pc = "findPending"
    /\ Set(p, [r EXCEPT !.reads = @ + 1, !.pc = "create"])
    /\ UNCHANGED <<rows, nextId, lastBoot, failed, history>>

\* fallback: the user's latest pending row
VerifyFindPending(p) ==
    LET r == req[p]
        found == PendingOf(r.user) IN
    /\ r.kind = "verify" /\ r.pc = "findPending"
    /\ IF found # {}
         THEN Set(p, [r EXCEPT !.reads = @ + 1, !.pc = "assumeRole",
                               !.connection = Latest(found), !.target = Latest(found)])
         ELSE Set(p, [r EXCEPT !.reads = @ + 1, !.pc = "create"])
    /\ UNCHANGED <<rows, nextId, lastBoot, failed, history>>

\* else create a pending row
VerifyCreate(p) ==
    LET r == req[p]
        connection == PendingRow(r.user) IN
    /\ r.kind = "verify" /\ r.pc = "create"
    /\ nextId <= MaxRows
    /\ IF ConstraintsOk(rows \cup {connection})
         THEN /\ rows' = rows \cup {connection}
              /\ nextId' = nextId + 1
              /\ Set(p, [r EXCEPT !.pc = "assumeRole", !.connection = connection,
                                  !.target = connection,
                                  !.created = @ \cup {connection.id}])
         ELSE /\ Set(p, InternalError(r, "Internal server error", "P2002"))
              /\ UNCHANGED <<rows, nextId>>
    /\ UNCHANGED <<lastBoot, failed, history>>

\* Step 1 writing the role as soon as it is assumed, before the probe
VerifyAssumeRolePromoting(p, accepted) ==
    LET r == req[p]
        call == AssumeRoleInput(r.body, r.connection)
        called == [r EXCEPT !.stsCall = call, !.stsCalls = @ + 1]
        stored == {row \in rows : row.id = r.connection.id} IN
    /\ r.kind = "verify" /\ r.pc = "assumeRole"
    /\ IF accepted
         THEN /\ Set(p, [called EXCEPT !.pc = "listBuckets", !.credentials = call,
                                       !.granted = @ \cup {"sts"},
                                       !.modified = @ \cup {r.connection.id}])
              /\ rows' = (rows \ stored) \cup
                            {PromoteData(row, r.body, r.connection) : row \in stored}
              /\ UNCHANGED failed
         ELSE /\ Set(p, Respond(called, ErrorResponse(403, "Failed to assume role", "sts")))
              /\ IF r.connection.roleArn = Null
                   THEN RecordFailed(r.user, [id |-> r.connection.id,
                                              ExternalId |-> call.ExternalId])
                   ELSE UNCHANGED failed
              /\ UNCHANGED rows
    /\ UNCHANGED <<nextId, lastBoot, history>>

\* Step 1 discarding a pending row the provider rejected
VerifyAssumeRoleDiscarding(p, accepted) ==
    LET r == req[p]
        call == AssumeRoleInput(r.body, r.connection)
        called == [r EXCEPT !.stsCall = call, !.stsCalls = @ + 1]
        stored == {row \in rows : row.id = r.connection.id /\ row.roleArn = Null} IN
    /\ r.kind = "verify" /\ r.pc = "assumeRole"
    /\ IF accepted
         THEN /\ Set(p, [called EXCEPT !.pc = "listBuckets", !.credentials = call,
                                       !.granted = @ \cup {"sts"}])
              /\ UNCHANGED <<rows, failed>>
         ELSE /\ Set(p, Respond([called EXCEPT !.deleted = @ \cup {row.id : row \in stored}],
                                ErrorResponse(403, "Failed to assume role", "sts")))
              /\ rows' = rows \ stored
              /\ IF r.connection.roleArn = Null
                   THEN RecordFailed(r.user, [id |-> r.connection.id,
                                              ExternalId |-> call.ExternalId])
                   ELSE UNCHANGED failed
    /\ UNCHANGED <<nextId, lastBoot, history>>

\* Step 1: assumeRole; the provider accepts or rejects the call
VerifyAssumeRole(p, accepted) ==
    LET r == req[p]
        call == AssumeRoleInput(r.body, r.connection)
        called == [r EXCEPT !.stsCall = call, !.stsCalls = @ + 1] IN
    /\ r.kind = "verify" /\ r.pc = "assumeRole"
    /\ IF accepted
         THEN /\ Set(p, [called EXCEPT !.pc = "listBuckets", !.credentials = call,
                                       !.granted = @ \cup {"sts"}])
              /\ UNCHANGED failed
         ELSE /\ Set(p, Respond(called, ErrorResponse(403, "Failed to assume role", "sts")))
              /\ IF r.connection.roleArn = Null
                   THEN RecordFailed(r.user, [id |-> r.connection.id,
                                              ExternalId |-> call.ExternalId])
                   ELSE UNCHANGED failed
    /\ UNCHANGED <<rows, nextId, lastBoot, history>>

\* Step 2 marking the connection unverified when the probe fails
VerifyListBucketsUnverifying(p, accepted) ==
    LET r == req[p]
        called == [r EXCEPT !.s3Calls = @ + 1, !.usedCredentials = r.credentials]
        stored == {row \in rows : row.id = r.connection.id} IN
    /\ r.kind = "verify" /\ r.pc = "listBuckets"
    /\ IF accepted
         THEN Set(p, [called EXCEPT !.pc = "findByRole", !.granted = @ \cup {"s3"}]) /\ UNCHANGED rows
         ELSE /\ Set(p, Respond([called EXCEPT !.modified = @ \cup {r.connection.id}],
                  ErrorResponse(403, "Role assumed successfully but S3 access denied", "s3")))
              /\ rows' = (rows \ stored) \cup {[row EXCEPT !.roleArn = Null] : row \in stored}
    /\ UNCHANGED <<nextId, lastBoot, failed, history>>

\* Step 2 going on to the promote whatever the probe answers
VerifyListBucketsIgnoringProbe(p, accepted) ==
    LET r == req[p]
        called == [r EXCEPT !.s3Calls = @ + 1, !.usedCredentials = r.credentials] IN
    /\ r.kind = "verify" /\ r.pc = "listBuckets"
    /\ Set(p, [called EXCEPT !.pc = "findByRole",
                             !.granted = IF accepted THEN @ \cup {"s3"} ELSE @])
    /\ UNCHANGED <<rows, nextId, lastBoot, failed, history>>

\* Step 2: listBuckets(credentials) as the permission probe
VerifyListBuckets(p, accepted) ==
    LET r == req[p]
        called == [r EXCEPT !.s3Calls = @ + 1, !.usedCredentials = r.credentials] IN
    /\ r.kind = "verify" /\ r.pc = "listBuckets"
    /\ IF accepted
         THEN Set(p, [called EXCEPT !.pc = "findByRole", !.granted = @ \cup {"s3"}])
         ELSE Set(p, Respond(called,
                  ErrorResponse(403, "Role assumed successfully but S3 access denied", "s3")))
    /\ UNCHANGED <<rows, nextId, lastBoot, failed, history>>

\* an answer built from the row the request resolved at its start
VerifySucceedWithTarget(p, r, connection) ==
    /\ Set(p, Respond([r EXCEPT !.connection = connection], VerifyResponse(r.target)))
    /\ RecordBoot(r.user, NoResponse)
    /\ RecordFailed(r.user, NoAttempt)

\* the answer of a verify that reached the end of the handler
VerifySucceed(p, r, connection) ==
    /\ Set(p, Respond([r EXCEPT !.connection = connection], VerifyResponse(connection)))
    /\ RecordBoot(r.user, NoResponse)
    /\ RecordFailed(r.user, NoAttempt)

\* Step 3 discarding the target whatever its state
VerifyFindByRoleAlwaysDeleting(p) ==
    LET r == req[p]
        found == FindByUserAndRole(r.user, r.body.roleArn) IN
    /\ r.kind = "verify" /\ r.pc = "findByRole"
    /\ \E existingByRole \in (IF found = {} THEN {NoRow} ELSE found) :
         LET read == [r EXCEPT !.reads = @ + 1, !.existingByRole = existingByRole] IN
         IF existingByRole # NoRow /\ existingByRole.id # r.connection.id
           THEN Set(p, [read EXCEPT !.pc = "delete"])
           ELSE Set(p, [read EXCEPT !.pc = "update"])
    /\ UNCHANGED <<rows, nextId, lastBoot, failed, history>>

\* Step 3: findFirst({ userId, roleArn }) and the branch on its result
VerifyFindByRole(p) ==
    LET r == req[p]
        found == FindByUserAndRole(r.user, r.body.roleArn) IN
    /\ r.kind = "verify" /\ r.pc = "findByRole"
    /\ \E existingByRole \in (IF found = {} THEN {NoRow} ELSE found) :
         LET read == [r EXCEPT !.reads = @ + 1, !.existingByRole = existingByRole] IN
         IF existingByRole # NoRow /\ existingByRole.id # r.connection.id
           THEN IF r.connection.roleArn = Null
                  THEN Set(p, [read EXCEPT !.pc = "delete"]) /\ UNCHANGED <<lastBoot, failed>>
                  ELSE VerifySucceed(p, read, existingByRole)
           ELSE Set(p, [read EXCEPT !.pc = "update"]) /\ UNCHANGED <<lastBoot, failed>>
    /\ UNCHANGED <<rows, nextId, history>>

\* delete({ where: { id: connection.id } }); connection = existingByRole
VerifyDelete(p) ==
    LET r == req[p]
        stored == {row \in rows : row.id = r.connection.id} IN
    /\ r.kind = "verify" /\ r.pc = "delete"
    /\ IF stored # {}
         THEN /\ rows' = rows \ stored
              /\ VerifySucceed(p, [r EXCEPT !.deleted = @ \cup {r.connection.id}],
                               r.existingByRole)
         ELSE /\ Set(p, InternalError(r, "Internal server error", "P2025"))
              /\ UNCHANGED <<rows, lastBoot, failed>>
    /\ UNCHANGED <<nextId, history>>

\* update({ where: { id: connection.id }, data: { roleArn, name } })
VerifyUpdate(p) ==
    LET r == req[p]
        stored == {row \in rows : row.id = r.connection.id} IN
    /\ r.kind = "verify" /\ r.pc = "update"
    /\ IF stored = {}
         THEN /\ Set(p, InternalError(r, "Internal server error", "P2025"))
              /\ UNCHANGED <<rows, lastBoot, failed>>
         ELSE LET row == CHOOSE x \in stored : TRUE
                  updated == PromoteData(row, r.body, r.connection)
                  table == (rows \ stored) \cup {updated} IN
              IF ConstraintsOk(table)
                THEN /\ rows' = table
                     /\ VerifySucceed(p, [r EXCEPT !.modified = @ \cup {row.id}], updated)
                ELSE /\ Set(p, InternalError(r, "Internal server error", "P2002"))
                     /\ UNCHANGED <<rows, lastBoot, failed>>
    /\ UNCHANGED <<nextId, history>>

\* ------------------------------------- resource access: the three handlers
\* GET /api/s3/buckets, GET /api/s3/objects and POST /api/s3/presigned-url
AccessQuery(connectionId, bucket, key, expiresIn) ==
    [NoBody EXCEPT !.connectionId = connectionId, !.bucket = bucket, !.key = key,
                   !.expiresIn = expiresIn]

\* a lookup that falls back to the user's latest row when the id matches none
ResolveConnectionFallingBack(connectionId, u) ==
    LET own == {r \in rows : r.userId = u}
        byId == {r \in own : r.id = connectionId} IN
    IF connectionId # 0 /\ byId # {} THEN byId
    ELSE IF own = {} THEN {} ELSE {Latest(own)}

\* findFirst by id and user when connectionId is given, else the user's latest row
ResolveConnection(connectionId, u) ==
    IF connectionId # 0
      THEN FindByIdAndUser(connectionId, u)
      ELSE LET own == {r \in rows : r.userId = u} IN
           IF own = {} THEN {} ELSE {Latest(own)}

NotFound == ErrorResponse(404, "No AWS connection found", "")
NotVerified == ErrorResponse(409, "AWS connection is not verified yet", "")

\* expiresIn || 3600: undefined and 0 are both falsy
DefaultExpiresIn == 3600
SignedLifetime(expiresIn) ==
    IF expiresIn = NoExpiresIn \/ expiresIn = 0 THEN DefaultExpiresIn ELSE expiresIn

\* list buckets: session check (no parameter is required)
ListBucketsBegin(p, u, query) ==
    /\ req[p].pc = "idle"
    /\ LET r == FreshRequest("listBuckets", u, query) IN
         IF u = NoUser
           THEN Set(p, Respond(r, ErrorResponse(401, "Unauthorized", "")))
           ELSE Set(p, [r EXCEPT !.pc = "resolve"])
    /\ UNCHANGED <<rows, nextId, lastBoot, failed, history>>

\* list objects validating the bucket before the session
ListObjectsBeginValidatingFirst(p, u, query) ==
    /\ req[p].pc = "idle"
    /\ LET r == FreshRequest("listObjects", u, query) IN
         IF query.bucket = ""
           THEN Set(p, Respond(r, ErrorResponse(400, "bucket parameter is required", "")))
         ELSE IF u = NoUser
           THEN Set(p, Respond(r, ErrorResponse(401, "Unauthorized", "")))
         ELSE Set(p, [r EXCEPT !.pc = "resolve"])
    /\ UNCHANGED <<rows, nextId, lastBoot, failed, history>>

\* list objects: session check, then bucket is required
ListObjectsBegin(p, u, query) ==
    /\ req[p].pc = "idle"
    /\ LET r == FreshRequest("listObjects", u, query) IN
         IF u = NoUser
           THEN Set(p, Respond(r, ErrorResponse(401, "Unauthorized", "")))
         ELSE IF query.bucket = ""
           THEN Set(p, Respond(r, ErrorResponse(400, "bucket parameter is required", "")))
         ELSE Set(p, [r EXCEPT !.pc = "resolve"])
    /\ UNCHANGED <<rows, nextId, lastBoot, failed, history>>

\* presigned url: session check, then bucket and key are required
PresignBegin(p, u, query) ==
    /\ req[p].pc = "idle"
    /\ LET r == FreshRequest("presign", u, query) IN
         IF u = NoUser
           THEN Set(p, Respond(r, ErrorResponse(401, "Unauthorized", "")))
         ELSE IF query.bucket = "" \/ query.key = ""
           THEN Set(p, Respond(r, ErrorResponse(400, "bucket and key are required", "")))
         ELSE Set(p, [r EXCEPT !.pc = "resolve"])
    /\ UNCHANGED <<rows, nextId, lastBoot, failed, history>>

\* list buckets without the test of roleArn
ListBucketsResolveUnchecked(p) ==
    LET r == req[p]
        found == ResolveConnection(r.body.connectionId, r.user)
        read == [r EXCEPT !.reads = @ + 1] IN
    /\ r.kind = "listBuckets" /\ r.pc = "resolve"
    /\ IF found = {} THEN Set(p, Respond(read, NotFound))
       ELSE LET connection == CHOOSE c \in found : TRUE IN
            Set(p, [read EXCEPT !.pc = "assumeRole", !.connection = connection,
                                !.target = connection])
    /\ UNCHANGED <<rows, nextId, lastBoot, failed, history>>

\* list buckets: the lookup, 404 when absent, 409 when roleArn is null
ListBucketsResolve(p) ==
    LET r == req[p]
        found == ResolveConnection(r.body.connectionId, r.user)
        read == [r EXCEPT !.reads = @ + 1] IN
    /\ r.kind = "listBuckets" /\ r.pc = "resolve"
    /\ IF found = {} THEN Set(p, Respond(read, NotFound))
       ELSE LET connection == CHOOSE c \in found : TRUE IN
            IF connection.roleArn = Null
              THEN Set(p, Respond([read EXCEPT !.connection = connection,
                                               !.target = connection], NotVerified))
              ELSE Set(p, [read EXCEPT !.pc = "assumeRole", !.connection = connection,
                                       !.target = connection])
    /\ UNCHANGED <<rows, nextId, lastBoot, failed, history>>

\* list objects: the lookup, 404 when absent; roleArn is not inspected
ListObjectsResolve(p) ==
    LET r == req[p]
        found == ResolveConnection(r.body.connectionId, r.user)
        read == [r EXCEPT !.reads = @ + 1] IN
    /\ r.kind = "listObjects" /\ r.pc = "resolve"
    /\ IF found = {} THEN Set(p, Respond(read, NotFound))
       ELSE LET connection == CHOOSE c \in found : TRUE IN
            Set(p, [read EXCEPT !.pc = "assumeRole", !.connection = connection,
                                !.target = connection])
    /\ UNCHANGED <<rows, nextId, lastBoot, failed, history>>

\* presigned url: the lookup, 404 when absent, 409 when roleArn is null
PresignResolve(p) ==
    LET r == req[p]
        found == ResolveConnection(r.body.connectionId, r.user)
        read == [r EXCEPT !.reads = @ + 1] IN
    /\ r.kind = "presign" /\ r.pc = "resolve"
    /\ IF found = {} THEN Set(p, Respond(read, NotFound))
       ELSE LET connection == CHOOSE c \in found : TRUE IN
            IF connection.roleArn = Null
              THEN Set(p, Respond([read EXCEPT !.connection = connection,
                                               !.target = connection], NotVerified))
              ELSE Set(p, [read EXCEPT !.pc = "assumeRole", !.connection = connection,
                                       !.target = connection])
    /\ UNCHANGED <<rows, nextId, lastBoot, failed, history>>

\* credentials taken from a cache keyed by the row, without a call to the provider
AccessAssumeRoleCached(p, kind, error, accepted) ==
    LET r == req[p]
        cached == [RoleArn |-> r.connection.roleArn, ExternalId |-> r.connection.externalId] IN
    /\ r.kind = kind /\ r.pc = "assumeRole"
    /\ IF accepted /\ cached.RoleArn # Null
         THEN Set(p, [r EXCEPT !.pc = "s3", !.credentials = cached])
         ELSE Set(p, InternalError(r, error, "sts"))
    /\ UNCHANGED <<rows, nextId, lastBoot, failed, history>>

\* assumeRole(connection.roleArn, connection.externalId); a rejection is thrown
\* to the handler's catch, and a call without a RoleArn is always rejected
AccessAssumeRole(p, kind, error, accepted) ==
    LET r == req[p]
        call == [RoleArn |-> r.connection.roleArn, ExternalId |-> r.connection.externalId]
        called == [r EXCEPT !.stsCall = call, !.stsCalls = @ + 1] IN
    /\ r.kind = kind /\ r.pc = "assumeRole"
    /\ IF accepted /\ call.RoleArn # Null
         THEN Set(p, [called EXCEPT !.pc = "s3", !.credentials = call,
                                      !.granted = @ \cup {"sts"}])
         ELSE Set(p, InternalError(called, error, "sts"))
    /\ UNCHANGED <<rows, nextId, lastBoot, failed, history>>

ListBucketsAssumeRole(p, accepted) ==
    AccessAssumeRole(p, "listBuckets", "Failed to list buckets", accepted)

ListObjectsAssumeRole(p, accepted) ==
    AccessAssumeRole(p, "listObjects", "Failed to list objects", accepted)

PresignAssumeRole(p, accepted) ==
    AccessAssumeRole(p, "presign", "Failed to generate presigned URL", accepted)

\* listBuckets(credentials) and the answer
ListBucketsCall(p, accepted) ==
    LET r == req[p]
        called == [r EXCEPT !.s3Calls = @ + 1, !.usedCredentials = r.credentials] IN
    /\ r.kind = "listBuckets" /\ r.pc = "s3"
    /\ IF accepted
         THEN Set(p, Respond([called EXCEPT !.granted = @ \cup {"s3"}],
                  [NoResponse EXCEPT !.status = 200, !.id = r.connection.id,
                                     !.name = r.connection.name,
                                     !.roleArn = r.connection.roleArn]))
         ELSE Set(p, InternalError(called, "Failed to list buckets", "s3"))
    /\ UNCHANGED <<rows, nextId, lastBoot, failed, history>>

\* listObjects(bucket, prefix, maxKeys, credentials) and the answer
ListObjectsCall(p, accepted) ==
    LET r == req[p]
        called == [r EXCEPT !.s3Calls = @ + 1, !.usedCredentials = r.credentials] IN
    /\ r.kind = "listObjects" /\ r.pc = "s3"
    /\ IF accepted
         THEN Set(p, Respond([called EXCEPT !.granted = @ \cup {"s3"}],
                  [NoResponse EXCEPT !.status = 200, !.id = r.connection.id,
                                     !.name = r.connection.name]))
         ELSE Set(p, InternalError(called, "Failed to list objects", "s3"))
    /\ UNCHANGED <<rows, nextId, lastBoot, failed, history>>

\* generatePresignedUploadUrl(..., credentials, expiresIn || 3600) and the answer
PresignCall(p, accepted) ==
    LET r == req[p]
        called == [r EXCEPT !.s3Calls = @ + 1, !.usedCredentials = r.credentials] IN
    /\ r.kind = "presign" /\ r.pc = "s3"
    /\ IF accepted
         THEN Set(p, Respond([called EXCEPT !.signedFor = SignedLifetime(r.body.expiresIn),
                                           !.granted = @ \cup {"s3"}],
                  [NoResponse EXCEPT !.status = 200,
                                     !.expiresIn = SignedLifetime(r.body.expiresIn)]))
         ELSE Set(p, InternalError(called, "Failed to generate presigned URL", "s3"))
    /\ UNCHANGED <<rows, nextId, lastBoot, failed, history>>

\* the answer has been sent: the slot is free for the next request
Deliver(p) ==
    /\ req[p].pc = "done"
    /\ Set(p, IdleRequest)
    /\ UNCHANGED <<rows, nextId, lastBoot, failed, history>>

\* ------------------------------------------------------------ specifications
MalformedBodies == {VerifyBody(a, "", c, 0) : a \in MalformedRoleArns, c \in {0, 1}}

\* the steps of the verify handler after its checks, and the answer's delivery
VerifyStep(p) ==
    \/ VerifyFindById(p)
    \/ VerifyFindPending(p)
    \/ VerifyCreate(p)
    \/ \E accepted \in BOOLEAN : VerifyAssumeRole(p, accepted)
    \/ \E accepted \in BOOLEAN : VerifyListBuckets(p, accepted)
    \/ VerifyFindByRole(p)
    \/ VerifyDelete(p)
    \/ VerifyUpdate(p)
    \/ Deliver(p)

Step(p) ==
    \/ VerifyStep(p)
    \/ BootstrapFindPending(p)
    \/ BootstrapCreate(p)
    \/ ListBucketsResolve(p)
    \/ ListObjectsResolve(p)
    \/ PresignResolve(p)
    \/ \E accepted \in BOOLEAN : ListBucketsAssumeRole(p, accepted)
    \/ \E accepted \in BOOLEAN : ListObjectsAssumeRole(p, accepted)
    \/ \E accepted \in BOOLEAN : PresignAssumeRole(p, accepted)
    \/ \E accepted \in BOOLEAN : ListBucketsCall(p, accepted)
    \/ \E accepted \in BOOLEAN : ListObjectsCall(p, accepted)
    \/ \E accepted \in BOOLEAN : PresignCall(p, accepted)

\* Requests of one user, their store and provider calls interleaved in every
\* order. Slot p1 serves every handler, slot p2 the two that write the store:
\* two requests that only read the store do not affect each other.
RaceUsers == {"u1"}
RaceBodies == {VerifyBody(a, "", c, 0) : a \in ValidRoleArns, c \in ConnectionIdInputs}
RaceQueries == {AccessQuery(0, "b", "k", NoExpiresIn)}

BeginRace(p) ==
    \/ \E u \in RaceUsers : BootstrapBegin(p, u)
    \/ \E u \in RaceUsers, body \in RaceBodies : VerifyBegin(p, u, body)
    \/ \E u \in RaceUsers, query \in RaceQueries : p = "p1" /\ ListBucketsBegin(p, u, query)
    \/ \E u \in RaceUsers, query \in RaceQueries : p = "p1" /\ ListObjectsBegin(p, u, query)
    \/ \E u \in RaceUsers, query \in RaceQueries : p = "p1" /\ PresignBegin(p, u, query)

Next == \E p \in Procs : BeginRace(p) \/ Step(p)

Spec == Init /\ [][Next]_vars

\* Requests of two users and of no user that do not overlap: each is served
\* to its answer, in slot p1, before the next begins.
ExpiresInInputs == {NoExpiresIn, 0, 60}
ListBucketsQueries == {AccessQuery(c, "", "", NoExpiresIn) : c \in ConnectionIdInputs}
ListObjectsQueries ==
    {AccessQuery(c, b, "", NoExpiresIn) : c \in ConnectionIdInputs, b \in {"", "b"}}
PresignQueries ==
    {AccessQuery(c, bk[1], bk[2], e) :
        c \in ConnectionIdInputs, bk \in {<<"", "k">>, <<"b", "">>, <<"b", "k">>},
        e \in ExpiresInInputs}

Begin(p) ==
    \/ \E u \in Users \cup {NoUser} : BootstrapBegin(p, u)
    \/ \E u \in Users, body \in VerifyBodies \cup MalformedBodies : VerifyBegin(p, u, body)
    \/ \E body \in {NoBody, VerifyBody(RoleA, "", 0, 0)} : VerifyBegin(p, NoUser, body)
    \/ \E u \in Users \cup {NoUser}, query \in ListBucketsQueries : ListBucketsBegin(p, u, query)
    \/ \E u \in Users \cup {NoUser}, query \in ListObjectsQueries : ListObjectsBegin(p, u, query)
    \/ \E u \in Users \cup {NoUser}, query \in PresignQueries : PresignBegin(p, u, query)

NextSeq == Begin("p1") \/ Step("p1")

SpecSeq == InitSeq /\ [][NextSeq]_vars

\* Verify requests of one user, one after the other, with every roleArn of
\* RoleArnInputs: the strings the format check is to tell apart.
ShapeBodies == {VerifyBody(a, "", c, 0) : a \in RoleArnInputs, c \in {0, 1}}

NextShape == (\E body \in ShapeBodies : VerifyBegin("p1", "u1", body)) \/ VerifyStep("p1")

SpecShape == Init /\ [][NextShape]_vars

\* ------------------------------------------------------------------ properties
\* the row a request resolved or created as its target, as stored when the
\* request began and as stored now
StoredTarget(r) ==
    {row \in r.seen.rows \cup rows : row.id = r.target.id /\ row.userId = r.user}

C2_BootstrapIdempotent ==
    \A p \in Procs :
        LET r == req[p] IN
        (/\ r.kind = "bootstrap" /\ r.pc = "done"
         /\ r.response.status = 200
         /\ r.seen.boot # NoResponse) =>
            /\ r.response.id = r.seen.boot.id
            /\ r.response.externalId = r.seen.boot.externalId
            /\ r.created = {} /\ r.modified = {} /\ r.deleted = {}
            /\ rows = r.seen.rows

\* a second bootstrap answered after a verify of the same row had failed
C2_Witness ==
    \E p \in Procs :
        /\ req[p].kind = "bootstrap" /\ req[p].pc = "done"
        /\ req[p].response.status = 200
        /\ req[p].seen.boot # NoResponse
        /\ req[p].seen.failed.id = req[p].response.id

\* a verify that passed AssumeRole and the listBuckets probe
PassedChecks(r) ==
    r.kind = "verify" /\ r.pc = "done" /\ r.s3Calls = 1 /\ r.response.status # 403

RowsWithRole(u, roleArn) == {row \in rows : row.userId = u /\ row.roleArn = roleArn}

\* C3: when two verify calls of one user for the same roleArn, each on its own
\* pending row, have both passed the checks and finished, exactly one row
\* holds that roleArn and both calls answered success with its id.
C3_RacingVerifiesAgree ==
    \A p, q \in Procs :
        (/\ p # q
         /\ PassedChecks(req[p]) /\ PassedChecks(req[q])
         /\ req[p].user = req[q].user
         /\ req[p].body.roleArn = req[q].body.roleArn
         /\ req[p].target.roleArn = Null /\ req[q].target.roleArn = Null
         /\ req[p].target.id # req[q].target.id) =>
            /\ req[p].response.status = 200 /\ req[q].response.status = 200
            /\ req[p].response.id = req[q].response.id
            /\ \E row \in rows :
                 /\ RowsWithRole(req[p].user, req[p].body.roleArn) = {row}
                 /\ row.id = req[p].response.id

\* C4: a verify whose promote write the (userId, roleArn) index rejected
\* answers success with the row that holds the roleArn, never 500.
C4_UniqueViolationReconciled ==
    \A p \in Procs :
        LET r == req[p] IN
        (r.kind = "verify" /\ r.pc = "done" /\ r.thrown = "P2002") =>
            /\ r.response.status = 200
            /\ \E row \in RowsWithRole(r.user, r.body.roleArn) : r.response.id = row.id

\* C5: no step changes the externalId of a row that stays in the table.
C5_ExternalIdImmutable ==
    [][\A row \in rows : \A next \in rows' :
          next.id = row.id => next.externalId = row.externalId]_vars

\* a row has been promoted
C5_Witness ==
    \E p \in Procs : \E row \in rows :
        row.id \in req[p].modified /\ row.roleArn # Null

\* C6: no step sets a non-null roleArn of a row that stays in the table to null.
C6_RoleArnNeverReverts ==
    [][\A row \in rows : \A next \in rows' :
          (next.id = row.id /\ row.roleArn # Null) => next.roleArn # Null]_vars

\* a verified row was the target of a later verify and has been written again
C6_Witness ==
    \E p \in Procs : \E row \in rows :
        /\ req[p].kind = "verify" /\ req[p].pc = "done"
        /\ req[p].target.roleArn # Null
        /\ row.id = req[p].target.id /\ row.id \in req[p].modified
        /\ row.roleArn # req[p].target.roleArn

\* C7: no two rows of a user share a non-null roleArn, and no two rows of a
\* user share an externalId.
C7_UniquePerUser ==
    \A row, other \in rows :
        (row.userId = other.userId /\ row.id # other.id) =>
            /\ (row.roleArn # Null => row.roleArn # other.roleArn)
            /\ row.externalId # other.externalId

\* two requests were in flight together and the index rejected a promote
C7_Witness ==
    \E p \in Procs :
        /\ req[p].thrown = "P2002"
        /\ Cardinality(rows) = 2

\* C8: a verify answered 403 has written and deleted nothing: every row stored
\* when it began is stored unchanged, and its target is stored as resolved.
C8_FailedVerifyKeepsRows ==
    \A p \in Procs :
        LET r == req[p] IN
        (r.kind = "verify" /\ r.pc = "done" /\ r.response.status = 403) =>
            /\ r.modified = {} /\ r.deleted = {}
            /\ r.seen.rows \subseteq rows
            /\ r.target \in rows
            /\ rows \ r.seen.rows = {row \in rows : row.id \in r.created}

\* the probe failed for a pending row although the request named it and gave a name
C8_Witness ==
    \E p \in Procs :
        /\ req[p].kind = "verify" /\ req[p].pc = "done"
        /\ req[p].response.status = 403
        /\ req[p].s3Calls = 1
        /\ req[p].target.roleArn = Null
        /\ req[p].body.name = "n1"
        /\ req[p].target \in rows

\* a verify of a user whose last verify failed at AssumeRole on a pending row,
\* with no successful verify of that user since, naming that row or no row
Retry(r) ==
    /\ r.kind = "verify"
    /\ r.seen.failed.id # 0
    /\ r.body.connectionId \in {0, r.seen.failed.id}

\* C9 as stated: the retry calls AssumeRole with the External ID of the failed
\* attempt and, when the provider accepts, ends with that row verified.
C9_RetryVerifiesPending ==
    \A p \in Procs :
        LET r == req[p] IN
        Retry(r) =>
            /\ r.stsCalls > 0 => r.stsCall.ExternalId = r.seen.failed.ExternalId
            /\ PassedChecks(r) =>
                 /\ r.response.status = 200
                 /\ \E row \in rows :
                      row.id = r.seen.failed.id /\ row.roleArn = r.body.roleArn

\* C9 amended: ... and ends with that row verified, unless another row of the
\* user already holds the roleArn: then the pending row is deleted and that
\* other row, unchanged, is the one returned.
C9_RetryUsesSameExternalId ==
    \A p \in Procs :
        LET r == req[p] IN
        Retry(r) =>
            /\ r.stsCalls > 0 => r.stsCall.ExternalId = r.seen.failed.ExternalId
            /\ PassedChecks(r) =>
                 /\ r.response.status = 200
                 /\ \/ \E row \in rows :
                         /\ row.id = r.seen.failed.id /\ row.roleArn = r.body.roleArn
                         /\ r.response.id = row.id
                    \/ /\ \A row \in rows : row.id # r.seen.failed.id
                       /\ \E row \in rows \cap r.seen.rows :
                            /\ row.userId = r.user /\ row.roleArn = r.body.roleArn
                            /\ r.response.id = row.id

\* a retry that named no row verified the pending row of the failed attempt
C9_Witness ==
    \E p \in Procs : \E row \in rows :
        /\ Retry(req[p]) /\ PassedChecks(req[p])
        /\ req[p].body.connectionId = 0
        /\ row.id = req[p].seen.failed.id /\ row.roleArn = req[p].body.roleArn

\* the roleArn values the verify handler is to refuse
Malformed(roleArn) ==
    \/ roleArn = Undefined
    \/ roleArn = EmptyString
    \/ ~StartsWith(roleArn, ArnPrefix)
    \/ ~Includes(roleArn, RoleMarker)

\* C10: an authenticated verify with a missing, empty or misshapen roleArn is
\* answered 400 at once: no AssumeRole, no listBuckets, no read or write of
\* the table.
C10_MalformedRoleArnRejected ==
    \A p \in Procs :
        LET r == req[p] IN
        (r.kind = "verify" /\ r.user # NoUser /\ Malformed(r.body.roleArn)) =>
            /\ r.pc = "done"
            /\ r.response.status = 400
            /\ r.stsCalls = 0 /\ r.s3Calls = 0 /\ r.reads = 0
            /\ r.created = {} /\ r.modified = {} /\ r.deleted = {}
            /\ rows = r.seen.rows

\* arn:aws:iam::1:user/A was refused while the user had a pending row
C10_Witness ==
    \E p \in Procs :
        /\ req[p].kind = "verify" /\ req[p].pc = "done"
        /\ req[p].response.status = 400
        /\ req[p].body.roleArn = UserArn
        /\ PendingOf(req[p].user) # {}

AccessKinds == {"listBuckets", "listObjects", "presign"}

\* a resource-access request that has resolved a row whose roleArn is null
ResolvedPending(r) == r.kind \in AccessKinds /\ r.target # NoRow /\ r.target.roleArn = Null

\* C11: a list-buckets request that resolved a row with roleArn = null, named
\* by connectionId or as the user's latest row, is answered 409 at once and
\* has made no AssumeRole and no S3 call.
C11_ListBucketsPendingIs409 ==
    \A p \in Procs :
        LET r == req[p] IN
        (r.kind = "listBuckets" /\ ResolvedPending(r)) =>
            /\ r.pc = "done"
            /\ r.response.status = 409
            /\ r.stsCalls = 0 /\ r.s3Calls = 0

\* list buckets named a pending row by its id and was refused
C11_Witness ==
    \E p \in Procs :
        /\ req[p].kind = "listBuckets" /\ ResolvedPending(req[p])
        /\ req[p].body.connectionId = req[p].target.id
        /\ req[p].response.status = 409

\* C12: every resource-access request (list buckets, list objects, presigned
\* url) that resolved a row with roleArn = null is answered 409 and has not
\* called AssumeRole.
C12_AccessPendingIs409 ==
    \A p \in Procs :
        LET r == req[p] IN
        ResolvedPending(r) =>
            /\ r.stsCalls = 0
            /\ r.pc = "done" => r.response.status = 409

\* a resource-access request without connectionId of a user who had a verified
\* row when it began, once its lookup is done
DefaultOfVerifiedUser(r) ==
    /\ r.kind \in AccessKinds
    /\ r.body.connectionId = 0
    /\ r.reads > 0
    /\ \E row \in r.seen.rows : row.userId = r.user /\ row.roleArn # Null

\* C13: in a run of non-overlapping requests, a resource-access request
\* without connectionId of a user who has a verified row resolves a verified
\* row and is not answered 409.
C13_DefaultResolvesVerified ==
    \A p \in Procs :
        LET r == req[p] IN
        DefaultOfVerifiedUser(r) =>
            /\ r.target # NoRow
            /\ r.target.roleArn # Null
            /\ r.response.status # 409

\* the rows of the user, other than the target, that held the submitted
\* roleArn when the verify began
HoldersOfRole(r) ==
    {row \in r.seen.rows :
        row.userId = r.user /\ row.roleArn = r.body.roleArn /\ row.id # r.target.id}

\* C14: in a run of non-overlapping requests, a verify that passed AssumeRole
\* and the probe for a roleArn that another row B of the user already holds
\* returns B's id and name, leaves B as it was, writes no row, deletes the
\* target when the target was pending and leaves it in place when it was
\* verified.
C14_ReconciliationFrame ==
    \A p \in Procs :
        LET r == req[p] IN
        (PassedChecks(r) /\ HoldersOfRole(r) # {}) =>
            \E B \in HoldersOfRole(r) :
                /\ r.response.status = 200
                /\ r.response.id = B.id
                /\ r.response.name = B.name
                /\ r.response.roleArn = B.roleArn
                /\ B \in rows
                /\ r.modified = {}
                /\ IF r.target.roleArn = Null
                     THEN /\ r.deleted = {r.target.id}
                          /\ \A row \in rows : row.id # r.target.id
                          /\ rows = r.seen.rows \ {r.target}
                     ELSE /\ r.deleted = {}
                          /\ r.target \in rows
                          /\ rows = r.seen.rows

\* a verified target was left in place and the name of the request dropped
C14_Witness ==
    \E p \in Procs :
        /\ PassedChecks(req[p]) /\ HoldersOfRole(req[p]) # {}
        /\ req[p].target.roleArn # Null
        /\ req[p].body.name = "n1"
        /\ \A row \in rows : row.name # "n1"

\* C15: no step removes from the table a row whose roleArn is non-null: a row
\* is deleted only while it is pending, whatever the interleaving.
C15_OnlyPendingDeleted ==
    [][\A row \in rows :
          row.roleArn # Null => \E next \in rows' : next.id = row.id]_vars

\* the request names, as connectionId, a row of another user
NamesForeignRow(r) ==
    /\ r.body.connectionId # 0
    /\ \E row \in r.seen.rows : row.id = r.body.connectionId /\ row.userId # r.user

\* the ids of the rows of users other than the user of the request
ForeignIds(r) == {row.id : row \in {x \in r.seen.rows \cup rows : x.userId # r.user}}

\* C16: in a run of non-overlapping requests of two users, a request of user U
\* resolves only rows of U, calls AssumeRole only with the externalId (and,
\* for resource access, the roleArn) of a row of U, returns, creates, modifies
\* and deletes only rows of U and leaves the rows of the other user as they
\* were; when it names a row of the other user, verify takes U's latest
\* pending row or a new one and resource access answers 404.
C16_UserScoped ==
    \A p \in Procs :
        LET r == req[p] IN
        r.user \in Users =>
            /\ r.target # NoRow => r.target.userId = r.user
            /\ r.stsCalls > 0 =>
                 /\ r.stsCall.ExternalId = r.target.externalId
                 /\ r.kind \in AccessKinds => r.stsCall.RoleArn = r.target.roleArn
            /\ {row \in r.seen.rows : row.userId # r.user} \subseteq rows
            /\ (r.created \cup r.modified \cup r.deleted) \cap ForeignIds(r) = {}
            /\ r.response.id \notin ForeignIds(r)
            /\ (NamesForeignRow(r) /\ r.kind \in AccessKinds /\ r.reads > 0) =>
                 /\ r.pc = "done" /\ r.response.status = 404
                 /\ r.stsCalls = 0 /\ r.s3Calls = 0
            /\ (NamesForeignRow(r) /\ r.kind = "verify" /\ r.target # NoRow) =>
                 /\ r.target.roleArn = Null
                 /\ \/ r.target.id \in r.created
                    \/ /\ r.target \in r.seen.rows
                       /\ \A row \in r.seen.rows :
                            (row.userId = r.user /\ row.roleArn = Null) =>
                                row.createdAt <= r.target.createdAt

\* a verify that named the other user's row succeeded on a row of its own
C16_Witness ==
    \E p \in Procs :
        /\ req[p].kind = "verify" /\ req[p].pc = "done"
        /\ NamesForeignRow(req[p])
        /\ req[p].response.status = 200
        /\ \E row \in rows : row.id = req[p].body.connectionId /\ row.userId # req[p].user

\* C17: a request of any of the five handlers made without a session user is
\* answered 401 at once, whatever its parameters: it has not read or written
\* the table and has called neither AssumeRole nor S3.
C17_UnauthenticatedIs401 ==
    \A p \in Procs :
        LET r == req[p] IN
        (r.kind # "none" /\ r.user = NoUser) =>
            /\ r.pc = "done"
            /\ r.response.status = 401
            /\ r.reads = 0 /\ r.stsCalls = 0 /\ r.s3Calls = 0
            /\ r.target = NoRow
            /\ r.created = {} /\ r.modified = {} /\ r.deleted = {}
            /\ rows = r.seen.rows

\* list objects without a session and without a bucket, the table not empty
C17_Witness ==
    \E p \in Procs :
        /\ req[p].kind = "listObjects" /\ req[p].user = NoUser
        /\ req[p].body.bucket = ""
        /\ req[p].response.status = 401
        /\ rows # {}

\* the columns of the AwsConnection table
ConnectionColumns == {"id", "userId", "externalId", "roleArn", "name", "createdAt"}

\* the steps of a handler that follow its own AssumeRole call
HoldingSteps == {"listBuckets", "findByRole", "delete", "update", "s3"}

\* C18: every stored row has the columns id, userId, externalId, roleArn, name
\* and its timestamp and no other; a request holds credentials only between
\* its own AssumeRole call and its answer, and they are those of that call.
C18_CredentialsNotStored ==
    /\ \A row \in rows : DOMAIN row = ConnectionColumns
    /\ \A p \in Procs :
         LET r == req[p] IN
         /\ r.credentials # NoCall =>
              /\ r.pc \in HoldingSteps
              /\ r.stsCalls = 1
              /\ r.credentials = r.stsCall
         /\ r.pc \notin HoldingSteps => r.credentials = NoCall

\* a verify has promoted a row with the credentials in hand, and has answered
C18_Witness ==
    \E p \in Procs : \E row \in rows :
        /\ req[p].kind = "verify" /\ req[p].pc = "done"
        /\ req[p].response.status = 200
        /\ row.id \in req[p].modified
        /\ req[p].usedCredentials # NoCall
        /\ req[p].credentials = NoCall

\* C19: in a run of non-overlapping requests, a resource-access request that
\* has called S3 has called AssumeRole exactly once before, with the roleArn
\* and externalId stored on the row it resolved, and has passed to S3 the
\* credentials of that call; at the S3 step it holds those credentials.
C19_FreshCredentialsPerRequest ==
    \A p \in Procs :
        LET r == req[p] IN
        r.kind \in AccessKinds =>
            /\ r.pc = "s3" => (r.stsCalls = 1 /\ r.credentials = r.stsCall)
            /\ r.s3Calls > 0 =>
                 /\ r.s3Calls = 1 /\ r.stsCalls = 1
                 /\ r.target \in r.seen.rows /\ r.target.userId = r.user
                 /\ r.stsCall = [RoleArn |-> r.target.roleArn,
                                 ExternalId |-> r.target.externalId]
                 /\ r.usedCredentials = r.stsCall

\* a presigned url was signed for the row named by connectionId although the
\* user has a later row
C19_Witness ==
    \E p \in Procs : \E row \in rows :
        /\ req[p].kind = "presign" /\ req[p].pc = "done"
        /\ req[p].response.status = 200
        /\ req[p].body.connectionId = req[p].target.id
        /\ row.userId = req[p].user /\ row.createdAt > req[p].target.createdAt
        /\ req[p].usedCredentials.ExternalId = req[p].target.externalId

\* the rows of the user of the request, as stored when it began
OwnRows(r) == {row \in r.seen.rows : row.userId = r.user}

\* the lookup of the request can match no row: the user has none, or the
\* connectionId is the id of none of the user's rows
MatchesNoRow(r) ==
    \/ OwnRows(r) = {}
    \/ r.body.connectionId # 0 /\ \A row \in OwnRows(r) : row.id # r.body.connectionId

\* C20: in a run of non-overlapping requests, a resource-access request that
\* passed the session and parameter checks, of a user without rows or with a
\* connectionId matching none of the user's rows, is answered 404 at its
\* lookup: no row is resolved, no AssumeRole and no S3 call is made.
C20_NoConnectionIs404 ==
    \A p \in Procs :
        LET r == req[p] IN
        (r.kind \in AccessKinds /\ r.user \in Users /\ r.reads > 0 /\ MatchesNoRow(r)) =>
            /\ r.pc = "done"
            /\ r.response.status = 404
            /\ r.target = NoRow
            /\ r.reads = 1
            /\ r.stsCalls = 0 /\ r.s3Calls = 0

\* a connectionId that matches none of the rows of a user who has a verified row
C20_Witness ==
    \E p \in Procs :
        /\ req[p].kind \in AccessKinds /\ req[p].pc = "done"
        /\ req[p].response.status = 404
        /\ req[p].body.connectionId # 0
        /\ \E row \in OwnRows(req[p]) : row.roleArn # Null

\* the request ended because the provider rejected its AssumeRole call or its
\* S3 call
ProviderRejected(r) == r.pc = "done" /\ r.response.details \in {"sts", "s3"}

\* C21: a verify, or a resource-access request on a verified row, that the
\* provider rejected at AssumeRole or at the S3 call is answered 403.
C21_ProviderRejectionIs403 ==
    \A p \in Procs :
        LET r == req[p] IN
        (/\ ProviderRejected(r)
         /\ r.kind = "verify" \/ (r.kind \in AccessKinds /\ r.target.roleArn # Null)) =>
            r.response.status = 403

\* C22: a 500 answer of any handler carries the generic message only: the
\* text of the error that was caught is not in the response body.
C22_InternalErrorIsGeneric ==
    \A p \in Procs :
        LET r == req[p] IN
        (r.pc = "done" /\ r.response.status = 500) =>
            /\ r.response.error # ""
            /\ r.response.details = ""

\* the rows whose roleArn the step has set: non-null after it, and not the
\* roleArn the row had before
NewlyVerified == {next \in rows' : next.roleArn # Null /\ next \notin rows}

\* C23: every step that sets the roleArn of a row to R is the promote write of
\* a verify request that made one AssumeRole call, for R and the externalId of
\* that row, which the provider accepted, and then one listBuckets call with
\* the credentials of that call, which the provider accepted; the row existed
\* before the step. Rows are created with roleArn = null.
C23_VerifiedByProbe ==
    [][\A next \in NewlyVerified :
          /\ \E row \in rows : row.id = next.id /\ row.externalId = next.externalId
          /\ \E p \in Procs :
               LET r == req[p] IN
               /\ r.kind = "verify" /\ r.pc = "update"
               /\ next.id \in req'[p].modified
               /\ r.stsCalls = 1 /\ r.s3Calls = 1
               /\ r.granted = {"sts", "s3"}
               /\ r.stsCall = [RoleArn |-> next.roleArn, ExternalId |-> next.externalId]
               /\ r.usedCredentials = r.stsCall]_vars

\* a verify that went through both provider calls has promoted its row
C23_Witness ==
    \E p \in Procs : \E row \in rows :
        /\ req[p].kind = "verify" /\ req[p].pc = "done"
        /\ req[p].granted = {"sts", "s3"}
        /\ row.id \in req[p].modified
        /\ req[p].stsCall = [RoleArn |-> row.roleArn, ExternalId |-> row.externalId]

\* C24: in a run of non-overlapping requests, when a verify for roleArn R has
\* answered success with id i, exactly one row of the user holds R, it has id
\* i, and the roleArn (and name) of the answer are that row's.
C24_SuccessNamesTheRow ==
    \A p \in Procs :
        LET r == req[p] IN
        (r.kind = "verify" /\ r.pc = "done" /\ r.response.status = 200) =>
            \E row \in rows :
                /\ RowsWithRole(r.user, r.body.roleArn) = {row}
                /\ row.id = r.response.id
                /\ r.response.roleArn = r.body.roleArn
                /\ r.response.name = row.name

\* a success that returned another row than the one the request resolved
C24_Witness ==
    \E p \in Procs :
        /\ req[p].kind = "verify" /\ req[p].pc = "done"
        /\ req[p].response.status = 200
        /\ req[p].response.id # req[p].target.id
        /\ req[p].response.roleArn = req[p].body.roleArn

\* the pending rows among those with the given ids
StillPending(ids) == {row \in rows : row.id \in ids /\ row.roleArn = Null}

\* Two bootstraps of one user that each created a row, both rows still
\* pending. A row is pending from its creation until it is promoted or
\* deleted, so each bootstrap looked for a pending row before the other one
\* created its own: the two overlapped while the user had no pending row.
OverlappingBootstraps(p, q) ==
    /\ p # q
    /\ req[p].kind = "bootstrap" /\ req[q].kind = "bootstrap"
    /\ req[p].pc = "done" /\ req[q].pc = "done"
    /\ req[p].user = req[q].user
    /\ req[p].created # {} /\ StillPending(req[p].created) # {}
    /\ req[q].created # {} /\ StillPending(req[q].created) # {}

\* C25: two bootstraps of one user that overlapped while the user had no
\* pending row have created one pending row at most between them and have
\* returned the same connectionId and externalId.
C25_RacingBootstrapsAgree ==
    \A p, q \in Procs :
        OverlappingBootstraps(p, q) =>
            /\ Cardinality(req[p].created \cup req[q].created) <= 1
            /\ req[p].response.id = req[q].response.id
            /\ req[p].response.externalId = req[q].response.externalId

\* C26: in a run of non-overlapping requests every user has one pending row
\* at most, in every state.
C26_OnePendingRow ==
    \A u \in Users :
        Cardinality({row \in rows : row.userId = u /\ row.roleArn = Null}) <= 1

\* a verify without connectionId took the pending row the user already had,
\* the user having a verified row as well
C26_Witness ==
    \E p \in Procs : \E row \in rows :
        /\ req[p].kind = "verify" /\ req[p].body.connectionId = 0
        /\ req[p].target # NoRow /\ req[p].target.roleArn = Null
        /\ req[p].created = {}
        /\ row.userId = req[p].user /\ row.roleArn # Null

\* C27: every step that changes a row whose roleArn is non-null is the promote
\* write of a verify that names the row as connectionId and answers success:
\* the row gets the submitted roleArn and keeps its id and externalId.
C27_VerifiedRowFrame ==
    [][\A row \in rows : \A next \in rows' :
          (next.id = row.id /\ row.roleArn # Null /\ next # row) =>
              /\ next.externalId = row.externalId
              /\ \E p \in Procs :
                   /\ req[p].kind = "verify"
                   /\ req[p].body.connectionId = row.id
                   /\ req'[p].pc = "done" /\ req'[p].response.status = 200
                   /\ next.roleArn = req[p].body.roleArn]_vars

\* C28: in a run of non-overlapping requests of two users, an answer that
\* carries an externalId is the success answer of a bootstrap, and the
\* externalId and id are those of a pending row of the user of the request;
\* answers of verify and of resource access, success or error, carry none.
C28_ExternalIdOnlyFromBootstrap ==
    \A p \in Procs :
        LET r == req[p] IN
        /\ r.response.externalId # 0 =>
             /\ r.kind = "bootstrap" /\ r.response.status = 200
             /\ \E row \in rows :
                  /\ row.id = r.response.id /\ row.externalId = r.response.externalId
                  /\ row.userId = r.user /\ row.roleArn = Null
        /\ (r.kind \in AccessKinds \cup {"verify"} /\ r.pc = "done") =>
             r.response.externalId = 0

\* a verify has answered success for a row whose externalId a bootstrap had
\* returned to the same user
C28_Witness ==
    \E p \in Procs : \E row \in rows :
        /\ req[p].kind = "verify" /\ req[p].pc = "done"
        /\ req[p].response.status = 200
        /\ row.id = req[p].response.id
        /\ req[p].seen.boot.externalId = row.externalId
        /\ req[p].response.externalId = 0

Digits == {"0", "1", "2", "3", "4", "5", "6", "7", "8", "9"}

\* the shape arn:aws:iam::<account>:role/<name>: the prefix, a non-empty
\* account of digits, the marker, a non-empty name
RoleArnShape(s) ==
    /\ StartsWith(s, ArnPrefix)
    /\ \E i \in (Len(ArnPrefix) + 2) .. Len(s) :
         /\ \A k \in (Len(ArnPrefix) + 1) .. (i - 1) : s[k] \in Digits
         /\ i + Len(RoleMarker) <= Len(s)
         /\ SubSeq(s, i, i + Len(RoleMarker) - 1) = RoleMarker

\* C29: an authenticated verify reaches AssumeRole only with a roleArn of the
\* shape arn:aws:iam::<account>:role/<name>, and a verify with any other
\* roleArn is answered 400.
C29_OnlyRoleArnShapeAccepted ==
    \A p \in Procs :
        LET r == req[p] IN
        (r.kind = "verify" /\ r.user # NoUser) =>
            /\ r.stsCalls > 0 => RoleArnShape(r.body.roleArn)
            /\ (r.pc = "done" /\ ~RoleArnShape(r.body.roleArn)) => r.response.status = 400

\* the lifetime the request asks for: its expiresIn when it gives one, else
\* the default of 3600 seconds
RequestedLifetime(body) ==
    IF body.expiresIn # NoExpiresIn THEN body.expiresIn ELSE DefaultExpiresIn

\* C30: a presigned-url request answered with success has signed the URL for
\* the lifetime the request asked for and returns that lifetime as expiresIn.
C30_SignedForRequestedLifetime ==
    \A p \in Procs :
        LET r == req[p] IN
        (r.kind = "presign" /\ r.pc = "done" /\ r.response.status = 200) =>
            /\ r.signedFor = RequestedLifetime(r.body)
            /\ r.response.expiresIn = r.signedFor

====
